---- MODULE Spec2Model ----
(***************************************************************************)
(* Model of nextbg.py: the index/offset state machine of class Config,    *)
(* its JSON config file, and the mode handlers that main() dispatches to. *)
(* One invocation of the program is: Config.setup() (parse_args + load),  *)
(* the handler of the selected mode, and, for most modes, the 'set'       *)
(* handler that runs the background-setter command.                       *)
(*                                                                         *)
(* Offsets are 0-based as in the Python source; TLA+ sequences are        *)
(* 1-based, so element i of a Python list s is s[i + 1].                  *)
(***************************************************************************)
EXTENDS Integers, Sequences, FiniteSets

\* ------------------------------------------------------------------ bounds
\* Number of distinct image paths on the file system (paths are 1..NumPaths).
NumPaths == 3
\* Longest list of file names a directory scan returns.
MaxScan == 2
\* Longest index found in a config file that was edited by hand.
MaxEdited == 3
\* Largest distance of a hand-edited offset from the valid range.
MaxSkew == 2

\* Number of distinct image paths when two invocations run at once.
NumRacePaths == 2

\* Config.path when no PATH argument is given (None).
NoPath == 0

Paths == 1..NumPaths

RacePaths == 1..NumRacePaths

\* The two invocations that run at the same time on one config file.
Procs == {"first", "second"}

Modes == {"scan", "print", "next", "prev", "random", "set", "delete", "next-or-set"}

\* Config.bg_set_command and Config.image_file_patterns as the class sets them
DefaultSettings ==
    [bg_set_command      |-> <<"feh", "--bg-fill", "<image>">>,
     image_file_patterns |-> <<"*.png", "*.jpg">>]

\* The two fields after the user has edited them in the config file
EditedSettings ==
    [bg_set_command      |-> <<"xwallpaper", "--zoom", "<image>">>,
     image_file_patterns |-> <<"*.png", "*.jpg", "*.gif">>]

\* ------------------------------------------------------------ list helpers
Range(s) == {s[i] : i \in 1..Len(s)}

SeqsUpTo(S, n) == UNION {[1..k -> S] : k \in 0..n}

NoDuplicates(s) == \A i, j \in 1..Len(s) : s[i] = s[j] => i = j

\* Python: offset in range(0, n)
in_range(off, n) == off >= 0 /\ off < n

\* Python: s[i] for 0 <= i < len(s)
At(s, i) == s[i + 1]

\* Python: s.pop(i) succeeds iff -len(s) <= i < len(s)
can_pop(s, i) == i >= -Len(s) /\ i < Len(s)

\* Python: the list left by s.pop(i); a negative i counts from the end
list_pop(s, i) ==
    LET j == IF i < 0 THEN i + Len(s) ELSE i
    IN  SubSeq(s, 1, j) \o SubSeq(s, j + 2, Len(s))

\* Python: the list left by s.insert(i, x); i is clamped into [0, len(s)]
list_insert(s, i, x) ==
    LET k == IF i < 0 THEN i + Len(s) ELSE i
        j == IF k < 0 THEN 0 ELSE IF k > Len(s) THEN Len(s) ELSE k
    IN  SubSeq(s, 1, j) \o <<x>> \o SubSeq(s, j + 1, Len(s))

\* Python: s.index(x), the 0-based position of the first occurrence of x
list_index(s, x) ==
    (CHOOSE i \in 1..Len(s) : s[i] = x /\ \A j \in 1..(i - 1) : s[j] # x) - 1

\* ------------------------------------------------------------------ dedup
RECURSIVE dedup_loop(_, _, _, _)
dedup_loop(values, i, value_set, out) ==
    IF i > Len(values) THEN out
    ELSE IF values[i] \notin value_set
         THEN dedup_loop(values, i + 1, value_set \cup {values[i]}, Append(out, values[i]))
         ELSE dedup_loop(values, i + 1, value_set, out)

dedup_keep_all(values) == values

dedup(values) == dedup_loop(values, 1, {}, <<>>)

\* --------------------------------------------------------- Config methods
\* A method takes the in-memory config c = [index, offset] and returns the
\* config it leaves, the error it raised ("" when none) and whether it
\* reached its call of save(); save() is the last statement of every method
\* that calls it, so the file then holds the returned index and offset.
Result(idx, off, err, sv) == [index |-> idx, offset |-> off, error |-> err, saved |-> sv]

Refused(c, err) == Result(c.index, c.offset, err, FALSE)

check_has_index(c) == c.index # <<>>

get_image_keep_offset(c) ==
    IF ~check_has_index(c) THEN Refused(c, "NoIndex")
    ELSE Result(c.index, c.offset, "", FALSE)

get_image(c) ==
    IF ~check_has_index(c) THEN Refused(c, "NoIndex")
    ELSE IF ~in_range(c.offset, Len(c.index))
         THEN Result(c.index, 0, "", FALSE)
         ELSE Result(c.index, c.offset, "", FALSE)

next_offset_no_check(c) ==
    IF ~in_range(c.offset + 1, Len(c.index))
    THEN Result(c.index, 0, "", TRUE)
    ELSE Result(c.index, c.offset + 1, "", TRUE)

next_offset_no_wrap(c) ==
    IF ~check_has_index(c) THEN Refused(c, "NoIndex")
    ELSE Result(c.index, c.offset + 1, "", TRUE)

next_offset(c) ==
    IF ~check_has_index(c) THEN Refused(c, "NoIndex")
    ELSE IF ~in_range(c.offset + 1, Len(c.index))
         THEN Result(c.index, 0, "", TRUE)
         ELSE Result(c.index, c.offset + 1, "", TRUE)

prev_offset_no_save(c) ==
    IF ~check_has_index(c) THEN Refused(c, "NoIndex")
    ELSE IF c.offset - 1 < 0
         THEN Result(c.index, Len(c.index) - 1, "", FALSE)
         ELSE Result(c.index, c.offset - 1, "", FALSE)

prev_offset_no_wrap(c) ==
    IF ~check_has_index(c) THEN Refused(c, "NoIndex")
    ELSE Result(c.index, c.offset - 1, "", TRUE)

prev_offset(c) ==
    IF ~check_has_index(c) THEN Refused(c, "NoIndex")
    ELSE IF c.offset - 1 < 0
         THEN Result(c.index, Len(c.index) - 1, "", TRUE)
         ELSE Result(c.index, c.offset - 1, "", TRUE)

\* r is the value random.randint(0, len(index) - 1) returned
random_offset(c, r) ==
    IF ~check_has_index(c) THEN Refused(c, "NoIndex")
    ELSE Result(c.index, r, "", TRUE)

pop_offset_no_refusal(c) ==
    IF ~check_has_index(c) THEN Refused(c, "NoIndex")
    ELSE IF ~can_pop(c.index, c.offset) THEN Refused(c, "IndexError")
    ELSE LET popped == list_pop(c.index, c.offset)
         IN  IF popped = <<>> THEN Result(popped, c.offset - 1, "NoIndex", FALSE)
             ELSE Result(popped, get_image([index |-> popped, offset |-> c.offset - 1]).offset, "", TRUE)

\* index.pop(offset) raises IndexError (not a CommandError) when the offset
\* is outside [-len, len); nothing has been changed at that point.
pop_offset(c) ==
    IF ~check_has_index(c) THEN Refused(c, "NoIndex")
    ELSE IF Len(c.index) = 1 THEN Refused(c, "LastItem")
    ELSE IF ~can_pop(c.index, c.offset) THEN Refused(c, "IndexError")
    ELSE LET popped == list_pop(c.index, c.offset)
             image  == get_image([index |-> popped, offset |-> c.offset - 1])
         IN  Result(popped, image.offset, "", TRUE)

set_index_keep_offset(c, names) == Result(dedup(names), c.offset, "", TRUE)

set_index(c, names) == Result(dedup(names), 0, "", TRUE)

update_index_no_merge(c, names) ==
    Result(c.index \o dedup(names), c.offset, "", TRUE)

update_index_prepend(c, names) ==
    Result(dedup(dedup(names) \o c.index), c.offset, "", TRUE)

update_index(c, names) ==
    Result(dedup(c.index \o dedup(names)), c.offset, "", TRUE)

set_image_off_by_one(c, image, exists, is_file) ==
    IF ~exists THEN Refused(c, "NotExists")
    ELSE IF ~is_file THEN Refused(c, "NotFile")
    ELSE IF image \in Range(c.index)
         THEN Result(c.index, list_index(c.index, image) + 1, "", TRUE)
         ELSE next_offset([index  |-> list_insert(c.index, c.offset + 1, image),
                           offset |-> c.offset])

\* exists / is_file are what Path.exists() and Path.is_file() answer
set_image(c, image, exists, is_file) ==
    IF ~exists THEN Refused(c, "NotExists")
    ELSE IF ~is_file THEN Refused(c, "NotFile")
    ELSE IF image \in Range(c.index)
         THEN Result(c.index, list_index(c.index, image), "", TRUE)
         ELSE next_offset([index  |-> list_insert(c.index, c.offset + 1, image),
                           offset |-> c.offset])

\* ------------------------------------------------------------------ state
VARIABLES
    index,        \* Config.index of the running invocation
    offset,       \* Config.offset of the running invocation
    file_exists,  \* whether the config file exists
    file_index,   \* 'index' in the config file
    file_offset,  \* 'offset' in the config file
    file_settings, \* 'bg_set_command' and 'image_file_patterns' in the config file
    settings,     \* Config.bg_set_command and Config.image_file_patterns
    created,      \* whether load() created the config file in this invocation
    mode,         \* Config.mode, the selected mode
    path,         \* Config.path, the PATH argument (NoPath when absent)
    append,       \* Config.append
    filenames,    \* what the directory scan of this invocation found
    pc,           \* "idle": nothing was run yet; "handler": loaded, the mode
                  \* handler is to run; "set": the handler is to call the
                  \* 'set' handler; "exit": the invocation has ended
    error,        \* the exception that ended the invocation ("" when none)
    saved,        \* whether the handler has called save() in this invocation
    setter,       \* "none", "ok" or "failed": the bg_set_command of this invocation
    old_index,    \* index as load() left it in this invocation
    old_offset,   \* offset as load() left it in this invocation
    cycle,        \* offsets seen by the current run of consecutive successful
                  \* next_offset calls, its starting offset first
    procs,        \* the Config and position of each of two concurrent invocations
    file_body     \* "complete": the file holds a whole JSON document; "empty":
                  \* it was truncated by open(..., 'wt'); "partial": only a
                  \* part of the document has reached it

vars == <<index, offset, file_exists, file_index, file_offset, file_settings, settings,
          created, mode, path, append, filenames, pc, error, saved, setter, old_index,
          old_offset, cycle, procs, file_body>>

main_vars == <<index, offset, settings, created, mode, path, append, filenames, pc,
               error, saved, setter, old_index, old_offset, cycle>>

race_vars == <<procs, file_body>>

file_vars == <<file_exists, file_index, file_offset, file_settings>>

arg_vars == <<mode, path, append>>

old_vars == <<old_index, old_offset, settings, created>>

config == [index |-> index, offset |-> offset]

\* Config(): the dataclass defaults, before load()
InitMemory ==
    /\ index = <<>>
    /\ offset = 0
    /\ settings = DefaultSettings
    /\ created = FALSE
    /\ mode = "next-or-set"
    /\ path = NoPath
    /\ append = FALSE
    /\ filenames = <<>>
    /\ pc = "idle"
    /\ error = ""
    /\ saved = FALSE
    /\ setter = "none"
    /\ old_index = <<>>
    /\ old_offset = 0
    /\ cycle = <<>>
    /\ procs = [i \in Procs |-> [pc |-> "idle", index |-> <<>>, offset |-> 0,
                                 settings |-> DefaultSettings, error |-> "",
                                 after |-> "exit"]]
    /\ file_body = "complete"

\* No config file yet, or a config file this program wrote earlier.
Init ==
    /\ InitMemory
    /\ file_exists \in BOOLEAN
    /\ file_index \in {s \in SeqsUpTo(Paths, NumPaths) : NoDuplicates(s)}
    /\ file_offset \in 0..NumPaths
    /\ IF file_exists /\ file_index # <<>>
       THEN in_range(file_offset, Len(file_index))
       ELSE file_index = <<>> /\ file_offset = 0
    /\ file_settings \in {DefaultSettings, EditedSettings}
    /\ (~file_exists => file_settings = DefaultSettings)

\* A config file that was edited by hand: any index, any offset near it.
InitEdited ==
    /\ InitMemory
    /\ file_exists = TRUE
    /\ file_index \in SeqsUpTo(Paths, MaxEdited)
    /\ file_offset \in (0 - MaxSkew)..(MaxEdited + MaxSkew)
    /\ file_offset <= Len(file_index) + MaxSkew
    /\ file_settings \in {DefaultSettings, EditedSettings}

\* ------------------------------------------------------- load and save
\* Config.save(): the file now holds the given index, offset and settings.
save(idx, off, st) ==
    /\ file_exists' = TRUE
    /\ file_index' = idx
    /\ file_offset' = off
    /\ file_settings' = st

load_without_create ==
    IF ~file_exists
    THEN [index |-> <<>>, offset |-> 0, settings |-> DefaultSettings, create |-> FALSE]
    ELSE [index |-> file_index, offset |-> file_offset, settings |-> file_settings,
          create |-> FALSE]

\* Config.load(): what the new Config holds after load(), and whether
\* load() called save() because there was no config file.
load ==
    IF ~file_exists
    THEN [index |-> <<>>, offset |-> 0, settings |-> DefaultSettings, create |-> TRUE]
    ELSE [index |-> file_index, offset |-> file_offset, settings |-> file_settings,
          create |-> FALSE]

\* Config.setup(): a new invocation parses its arguments and loads the
\* config file, creating it from the defaults when it does not exist.
\* PATH is only modelled for the default mode, --append only for --scan.
Setup(m, p, a) ==
    /\ pc \in {"idle", "exit"}
    /\ (p # NoPath => m = "next-or-set")
    /\ (a => m = "scan")
    /\ mode' = m
    /\ path' = p
    /\ append' = a
    /\ index' = load.index
    /\ offset' = load.offset
    /\ settings' = load.settings
    /\ created' = load.create
    /\ IF load.create
       THEN save(load.index, load.offset, load.settings)
       ELSE UNCHANGED file_vars
    /\ old_index' = load.index
    /\ old_offset' = load.offset
    /\ filenames' = <<>>
    /\ error' = ""
    /\ saved' = FALSE
    /\ setter' = "none"
    /\ pc' = "handler"
    /\ UNCHANGED <<cycle, race_vars>>

\* The effect of a Config method on the invocation; chain is the pc the
\* handler continues at when the method raised nothing.
Apply(r, chain) ==
    /\ index' = r.index
    /\ offset' = r.offset
    /\ error' = r.error
    /\ saved' = r.saved
    /\ IF r.saved THEN save(r.index, r.offset, settings) ELSE UNCHANGED file_vars
    /\ pc' = IF r.error = "" THEN chain ELSE "exit"

\* --------------------------------------------------------- mode handlers
\* 'next', and the default mode without PATH, which calls it.
next_image ==
    /\ pc = "handler"
    /\ mode = "next" \/ (mode = "next-or-set" /\ path = NoPath)
    /\ LET r == next_offset(config)
       IN  /\ Apply(r, "set")
           /\ cycle' = IF r.error # "" THEN <<>>
                       ELSE IF cycle = <<>> \/ Len(cycle) > Len(index)
                            THEN <<offset, r.offset>>
                            ELSE Append(cycle, r.offset)
    /\ UNCHANGED <<race_vars, arg_vars, old_vars, filenames, setter>>

prev_image ==
    /\ pc = "handler"
    /\ mode = "prev"
    /\ Apply(prev_offset(config), "set")
    /\ cycle' = <<>>
    /\ UNCHANGED <<race_vars, arg_vars, old_vars, filenames, setter>>

random_image ==
    /\ pc = "handler"
    /\ mode = "random"
    /\ \E r \in 0..(IF index = <<>> THEN 0 ELSE Len(index) - 1) :
          Apply(random_offset(config, r), "set")
    /\ cycle' = <<>>
    /\ UNCHANGED <<race_vars, arg_vars, old_vars, filenames, setter>>

delete_from_index ==
    /\ pc = "handler"
    /\ mode = "delete"
    /\ Apply(pop_offset(config), "set")
    /\ cycle' = <<>>
    /\ UNCHANGED <<race_vars, arg_vars, old_vars, filenames, setter>>

scan_directory_accepts_empty ==
    /\ pc = "handler"
    /\ mode = "scan"
    /\ \E names \in SeqsUpTo(Paths, MaxScan) :
          /\ filenames' = names
          /\ IF append THEN Apply(update_index(config, names), "set")
             ELSE Apply(set_index(config, names), "set")
    /\ cycle' = <<>>
    /\ UNCHANGED <<race_vars, arg_vars, old_vars, setter>>

\* names is what glob/rglob found for the configured patterns
scan_directory ==
    /\ pc = "handler"
    /\ mode = "scan"
    /\ \E names \in SeqsUpTo(Paths, MaxScan) :
          /\ filenames' = names
          /\ IF names = <<>> THEN Apply(Refused(config, "NoImages"), "set")
             ELSE IF append THEN Apply(update_index(config, names), "set")
             ELSE Apply(set_index(config, names), "set")
    /\ cycle' = <<>>
    /\ UNCHANGED <<race_vars, arg_vars, old_vars, setter>>

\* The default mode with a PATH argument.
next_image_or_set_image ==
    /\ pc = "handler"
    /\ mode = "next-or-set"
    /\ path # NoPath
    /\ \E exists, is_file \in BOOLEAN :
          /\ (is_file => exists)
          /\ Apply(set_image(config, path, exists, is_file), "set")
    /\ cycle' = <<>>
    /\ UNCHANGED <<race_vars, arg_vars, old_vars, filenames, setter>>

print_filename ==
    /\ pc = "handler"
    /\ mode = "print"
    /\ LET r == get_image(config)
       IN  /\ index' = r.index
           /\ offset' = r.offset
           /\ error' = r.error
    /\ pc' = "exit"
    /\ UNCHANGED <<race_vars, file_vars, arg_vars, old_vars, filenames, saved, setter, cycle>>

\* 'set', as a mode of its own or called by another handler; ok is whether
\* subprocess.check_call(cmd) returned normally.
set_background ==
    /\ pc = "set" \/ (pc = "handler" /\ mode = "set")
    /\ LET r == get_image(config)
       IN  /\ index' = r.index
           /\ offset' = r.offset
           /\ \E ok \in BOOLEAN :
                 IF r.error # "" THEN error' = r.error /\ setter' = "none"
                 ELSE IF ok THEN error' = "" /\ setter' = "ok"
                 ELSE error' = "SetterFailed" /\ setter' = "failed"
    /\ pc' = "exit"
    /\ UNCHANGED <<race_vars, file_vars, arg_vars, old_vars, filenames, saved, cycle>>

Next ==
    \/ \E m \in Modes, p \in {NoPath} \cup Paths, a \in BOOLEAN : Setup(m, p, a)
    \/ next_image
    \/ prev_image
    \/ random_image
    \/ delete_from_index
    \/ scan_directory
    \/ next_image_or_set_image
    \/ print_filename
    \/ set_background

Spec == Init /\ [][Next]_vars

SpecEdited == InitEdited /\ [][Next]_vars

\* ------------------------------------------------ two invocations at once
\* Every result the handler of some mode can leave from config c: the
\* navigation and deletion methods, get_image (print, set), a scan that
\* replaces or appends or finds nothing, and set_image of a PATH.
handler_results(c) ==
    {next_offset(c), prev_offset(c), pop_offset(c), get_image(c), Refused(c, "NoImages")}
    \cup {random_offset(c, r) : r \in 0..(IF c.index = <<>> THEN 0 ELSE Len(c.index) - 1)}
    \cup {set_index(c, names) : names \in SeqsUpTo(RacePaths, MaxScan) \ {<<>>}}
    \cup {update_index(c, names) : names \in SeqsUpTo(RacePaths, MaxScan) \ {<<>>}}
    \cup {set_image(c, image, TRUE, is_file) : image \in RacePaths, is_file \in BOOLEAN}
    \cup {set_image(c, image, FALSE, FALSE) : image \in RacePaths}

written_keeps_offset(c) ==
    [index |-> c.index, offset |-> file_offset, settings |-> c.settings]

\* The document json.dump writes for the Config c.
written(c) ==
    [index |-> c.index, offset |-> c.offset, settings |-> c.settings]

\* Config.load() of invocation i up to its call of save() or its return:
\* no file -> it will save the defaults; an incomplete document ->
\* json.load raises; otherwise the Config is read from the file.
proc_setup(i) ==
    /\ procs[i].pc = "idle"
    /\ procs' = [procs EXCEPT ![i] =
          IF ~file_exists
          THEN [pc |-> "save", index |-> <<>>, offset |-> 0, settings |-> DefaultSettings,
                error |-> "", after |-> "handler"]
          ELSE IF file_body # "complete"
          THEN [@ EXCEPT !.pc = "exit", !.error = "JSONDecodeError"]
          ELSE [pc |-> "handler", index |-> file_index, offset |-> file_offset,
                settings |-> file_settings, error |-> "", after |-> "exit"]]
    /\ UNCHANGED <<main_vars, file_vars, file_body>>

\* The mode handler of invocation i up to its call of save(), or to its end
\* when it raises or only reads the current image.
proc_handler(i) ==
    /\ procs[i].pc = "handler"
    /\ \E r \in handler_results(procs[i]) :
          procs' = [procs EXCEPT ![i] =
              [@ EXCEPT !.index = r.index, !.offset = r.offset, !.error = r.error,
                        !.pc = IF r.saved THEN "save" ELSE "exit",
                        !.after = "set"]]
    /\ UNCHANGED <<main_vars, file_vars, file_body>>

\* Config.save() of invocation i taken as one write of the whole document.
proc_save(i) ==
    /\ procs[i].pc = "save"
    /\ LET doc == written(procs[i])
       IN  save(doc.index, doc.offset, doc.settings)
    /\ file_body' = "complete"
    /\ procs' = [procs EXCEPT ![i].pc = procs[i].after]
    /\ UNCHANGED main_vars

\* Config.save() of invocation i, first step: open(path, 'wt') creates or
\* truncates the file.
proc_truncate(i) ==
    /\ procs[i].pc = "save"
    /\ file_exists' = TRUE
    /\ file_body' = "empty"
    /\ procs' = [procs EXCEPT ![i].pc = "dump"]
    /\ UNCHANGED <<main_vars, file_index, file_offset, file_settings>>

\* Config.save() of invocation i: json.dump has written a part of the
\* document through to the file.
proc_flush(i) ==
    /\ procs[i].pc = "dump"
    /\ file_body' = "partial"
    /\ procs' = [procs EXCEPT ![i].pc = "close"]
    /\ UNCHANGED <<main_vars, file_vars>>

\* Config.save() of invocation i, last step: the rest of the document is
\* written as the file is closed.  When the other invocation is writing
\* the same file too, the bytes of the two may be mixed.
proc_close(i) ==
    /\ procs[i].pc \in {"dump", "close"}
    /\ LET doc == written(procs[i])
       IN  save(doc.index, doc.offset, doc.settings)
    /\ file_body' \in IF \E j \in Procs \ {i} : procs[j].pc \in {"dump", "close"}
                      THEN {"complete", "partial"}
                      ELSE {"complete"}
    /\ procs' = [procs EXCEPT ![i].pc = procs[i].after]
    /\ UNCHANGED main_vars

\* The 'set' handler of invocation i; ok as in set_background.
proc_set(i) ==
    /\ procs[i].pc = "set"
    /\ LET r == get_image(procs[i])
       IN  \E ok \in BOOLEAN :
              procs' = [procs EXCEPT ![i] =
                  [@ EXCEPT !.index = r.index, !.offset = r.offset, !.pc = "exit",
                            !.error = IF r.error # "" THEN r.error
                                      ELSE IF ok THEN "" ELSE "SetterFailed"]]
    /\ UNCHANGED <<main_vars, file_vars, file_body>>

\* A config file this program wrote, over the paths of the two invocations.
InitRace ==
    /\ Init
    /\ Range(file_index) \subseteq RacePaths

NextRace ==
    \/ \E i \in Procs : proc_setup(i)
    \/ \E i \in Procs : proc_handler(i)
    \/ \E i \in Procs : proc_save(i)
    \/ \E i \in Procs : proc_set(i)

NextTorn ==
    \/ \E i \in Procs : proc_setup(i)
    \/ \E i \in Procs : proc_handler(i)
    \/ \E i \in Procs : proc_truncate(i)
    \/ \E i \in Procs : proc_flush(i)
    \/ \E i \in Procs : proc_close(i)
    \/ \E i \in Procs : proc_set(i)

\* Two invocations, each save() a single write.
SpecRace == InitRace /\ [][NextRace]_vars

\* Two invocations, save() as the steps open / json.dump / close.
SpecTorn == InitRace /\ [][NextTorn]_vars

\* ------------------------------------------------------------ properties
\* C1: whenever the index is non-empty, the offset in memory and the offset
\* in the config file are both in [0, len(index)).
C1_OffsetInRange ==
    /\ index # <<>> => in_range(offset, Len(index))
    /\ (file_exists /\ file_index # <<>>) => in_range(file_offset, Len(file_index))

\* pop_offset at offset 0 has run: the decremented offset -1 was clamped.
C1_Witness ==
    /\ mode = "delete" /\ pc = "set" /\ saved
    /\ old_offset = 0 /\ Len(old_index) > 1
    /\ offset = 0 /\ file_offset = 0

\* C2: the index never contains the same path twice, in memory or in the
\* config file, whatever duplicates a scan hands to set_index/update_index.
C2_NoDuplicatePaths ==
    /\ NoDuplicates(index)
    /\ NoDuplicates(file_index)

\* A scan that found the same file twice has been merged into the index.
C2_Witness ==
    /\ mode = "scan" /\ pc = "set" /\ saved
    /\ ~NoDuplicates(filenames)
    /\ file_index = index

\* C3: pop_offset on N > 1 elements at offset k removes element k, keeps the
\* others in order and leaves the offset at the element that was at
\* position (k - 1) mod N.
C3_PopLeavesPredecessor ==
    (mode = "delete" /\ pc = "set" /\ Len(old_index) > 1
        /\ in_range(old_offset, Len(old_index)))
    => /\ index = list_pop(old_index, old_offset)
       /\ in_range(offset, Len(index))
       /\ At(index, offset) = At(old_index, (old_offset - 1) % Len(old_index))

\* C4: pop_offset on a one-element index fails with the last-item error;
\* index, offset and config file stay as loaded, nothing is saved and the
\* background setter is not run.
C4_LastItemRefused ==
    (mode = "delete" /\ pc \in {"set", "exit"} /\ Len(old_index) = 1)
    => /\ pc = "exit"
       /\ error = "LastItem"
       /\ index = old_index /\ offset = old_offset
       /\ file_index = old_index /\ file_offset = old_offset
       /\ ~saved
       /\ setter = "none"

\* The delete mode has ended on a one-element index.
C4_Witness ==
    /\ mode = "delete" /\ pc = "exit"
    /\ Len(old_index) = 1
    /\ error = "LastItem"

\* C5: on an empty index next, prev, random, delete, print and set fail
\* with the no-index error; index and offset stay as loaded and nothing is
\* saved.
C5_EmptyIndexRefused ==
    (/\ pc \in {"set", "exit"}
     /\ old_index = <<>>
     /\ \/ mode \in {"next", "prev", "random", "delete", "print", "set"}
        \/ (mode = "next-or-set" /\ path = NoPath))
    => /\ pc = "exit"
       /\ error = "NoIndex"
       /\ index = <<>> /\ offset = old_offset
       /\ file_index = <<>> /\ file_offset = old_offset
       /\ ~saved
       /\ setter = "none"

\* A navigation on the empty index has ended.
C5_Witness ==
    /\ mode = "next" /\ pc = "exit"
    /\ old_index = <<>>
    /\ error = "NoIndex"

\* C6: N consecutive next_offset calls on an index of length N bring the
\* offset back to where it started and visit every position exactly once.
C6_NextCycles ==
    (index # <<>> /\ Len(cycle) = Len(index) + 1)
    => /\ cycle[Len(cycle)] = cycle[1]
       /\ offset = cycle[1]
       /\ {cycle[i] : i \in 2..Len(cycle)} = 0..(Len(index) - 1)

\* A full cycle over an index of at least three images, not started at 0.
C6_Witness ==
    /\ Len(index) >= 3
    /\ Len(cycle) = Len(index) + 1
    /\ cycle[1] = 1
    /\ mode = "next" /\ pc = "set"

\* C7: prev_offset at an in-range offset k stores and saves (k - 1) mod N,
\* which is N - 1 at k = 0 and never negative.
C7_PrevWraps ==
    (mode = "prev" /\ pc = "set" /\ in_range(old_offset, Len(old_index)))
    => /\ offset = (old_offset - 1) % Len(old_index)
       /\ (old_offset = 0 => offset = Len(old_index) - 1)
       /\ offset >= 0
       /\ saved /\ file_offset = offset

\* prev_offset has wrapped from offset 0 to the last element.
C7_Witness ==
    /\ mode = "prev" /\ pc = "set"
    /\ old_offset = 0 /\ Len(old_index) >= 2
    /\ offset = Len(old_index) - 1

\* C8: a loaded offset outside [0, len(index)) is treated as 0: every
\* operation leaves the index and offset it leaves from offset 0.
C8_EditedOffsetTreatedAsZero ==
    (/\ old_index # <<>>
     /\ ~in_range(old_offset, Len(old_index))
     /\ \/ (pc = "set" /\ mode \in {"next", "prev", "delete"})
        \/ (pc = "set" /\ mode = "scan" /\ append)
        \/ (pc = "set" /\ mode = "next-or-set")
        \/ (pc = "exit" /\ mode \in {"print", "set"}))
    => LET zero == [index |-> old_index, offset |-> 0]
           r == CASE mode = "next" -> next_offset(zero)
                  [] mode = "prev" -> prev_offset(zero)
                  [] mode = "delete" -> pop_offset(zero)
                  [] mode = "scan" -> update_index(zero, filenames)
                  [] mode = "next-or-set" /\ path = NoPath -> next_offset(zero)
                  [] mode = "next-or-set" /\ path # NoPath -> set_image(zero, path, TRUE, TRUE)
                  [] OTHER -> get_image(zero)
       IN  /\ index = r.index
           /\ offset = r.offset
           /\ (saved => file_offset = r.offset)

\* C9: when print or set finds the loaded offset out of range and resets it
\* to 0, the config file holds offset 0 when the invocation ends.
C9_ClampIsSaved ==
    (/\ pc = "exit" /\ mode \in {"print", "set"}
     /\ old_index # <<>>
     /\ ~in_range(old_offset, Len(old_index)))
    => /\ offset = 0
       /\ file_offset = offset

\* C10: set_image of an existing file that is not in the index inserts it
\* right after the current element and leaves the offset on it, for every
\* index and every stored offset.
C10_SetImageInsertsAfterCurrent ==
    (/\ pc = "set" /\ mode = "next-or-set" /\ path # NoPath
     /\ path \notin Range(old_index))
    => /\ Len(index) = Len(old_index) + 1
       /\ in_range(offset, Len(index))
       /\ At(index, offset) = path
       /\ list_pop(index, offset) = old_index
       /\ (old_index # <<>> => offset = old_offset + 1)

\* C11: set_image of an existing file that is already in the index moves
\* the offset to that path and leaves the index as it was, then saves.
C11_SetImageSelectsExisting ==
    (/\ pc = "set" /\ mode = "next-or-set" /\ path # NoPath
     /\ path \in Range(old_index))
    => /\ index = old_index
       /\ in_range(offset, Len(index))
       /\ At(index, offset) = path
       /\ saved
       /\ file_index = old_index /\ file_offset = offset

\* An image other than the current one was selected in an index of three.
C11_Witness ==
    /\ pc = "set" /\ mode = "next-or-set" /\ path # NoPath
    /\ path \in Range(old_index)
    /\ Len(old_index) = 3
    /\ offset # old_offset
    /\ saved

\* C12: set_index replaces the index by the input with every path kept
\* once, in the order of first occurrence, keeps nothing of the old index,
\* resets the offset to 0 and saves that.
C12_SetIndexReplaces ==
    (pc = "set" /\ mode = "scan" /\ ~append)
    => LET first(x) == CHOOSE i \in 1..Len(filenames) :
                          filenames[i] = x /\ \A j \in 1..(i - 1) : filenames[j] # x
       IN  /\ NoDuplicates(index)
           /\ Range(index) = Range(filenames)
           /\ \A i, j \in 1..Len(index) : i < j => first(index[i]) < first(index[j])
           /\ offset = 0
           /\ saved
           /\ file_index = index /\ file_offset = 0

\* A scan with a repeated file replaced an index whose offset was not 0.
C12_Witness ==
    /\ pc = "set" /\ mode = "scan" /\ ~append
    /\ ~NoDuplicates(filenames)
    /\ old_offset > 0
    /\ Range(old_index) \ Range(filenames) # {}

\* C13: after update_index, a second update_index with the same input adds
\* nothing: it leaves the same index and the same offset.
C13_UpdateIndexIdempotent ==
    (pc = "set" /\ mode = "scan" /\ append)
    => LET again == update_index(config, filenames)
       IN  /\ again.index = index
           /\ again.offset = offset
           /\ Len(again.index) - Len(index) = 0

\* An append that added a new path to a non-empty index.
C13_Witness ==
    /\ pc = "set" /\ mode = "scan" /\ append
    /\ old_index # <<>>
    /\ Len(index) > Len(old_index)

\* C14: update_index keeps the offset when it is in range for the merged
\* index and sets it to 0 when it is not; the saved offset is in range.
C14_UpdateIndexClampsOffset ==
    (pc = "set" /\ mode = "scan" /\ append)
    => /\ offset = IF in_range(old_offset, Len(index)) THEN old_offset ELSE 0
       /\ file_offset = offset
       /\ in_range(file_offset, Len(file_index))

\* C15: in every mutating mode the change is in the config file before the
\* background setter runs, and is still there when the setter has failed
\* and the invocation has ended with an error.
C15_SavedBeforeSetter ==
    /\ (pc = "set") =>
          /\ saved /\ setter = "none"
          /\ file_index = index /\ file_offset = offset
    /\ (pc = "exit" /\ setter = "failed" /\ mode # "set") =>
          /\ error = "SetterFailed"
          /\ saved
          /\ file_index = index /\ file_offset = offset
          /\ (mode \in {"next", "prev"} /\ Len(old_index) > 1) => file_offset # old_offset
          /\ (mode = "delete") => Len(file_index) = Len(old_index) - 1
          /\ (mode = "scan" /\ ~append) => Range(file_index) = Range(filenames)
          /\ (mode = "next-or-set" /\ path # NoPath) => At(file_index, file_offset) = path

\* The setter failed after prev had moved the offset.
C15_Witness ==
    /\ pc = "exit" /\ mode = "prev" /\ setter = "failed"
    /\ Len(old_index) > 1
    /\ file_offset # old_offset

\* C18: once the index in the config file is non-empty, no step makes it
\* empty again.
C18_IndexStaysNonEmpty ==
    [][(file_exists /\ file_index # <<>>) => (file_exists' /\ file_index' # <<>>)]_vars

\* A scan that found nothing was refused on a non-empty index.
C18_Witness ==
    /\ pc = "exit" /\ mode = "scan" /\ error = "NoImages"
    /\ old_index # <<>>
    /\ file_index = old_index

C17_LoadCreatesDefaults ==
    [][(pc \in {"idle", "exit"} /\ pc' = "handler")
        => IF ~file_exists
           THEN /\ file_exists'
                /\ file_index' = <<>> /\ file_offset' = 0
                /\ "<image>" \in Range(file_settings'.bg_set_command)
                /\ file_settings'.image_file_patterns = <<"*.png", "*.jpg">>
                /\ index' = file_index' /\ offset' = file_offset'
                /\ settings' = file_settings'
           ELSE /\ UNCHANGED file_vars
                /\ index' = file_index /\ offset' = file_offset
                /\ settings' = file_settings]_vars

\* load has just created the config file.
C17_Witness ==
    /\ pc = "handler" /\ created
    /\ file_exists /\ file_index = <<>> /\ file_offset = 0
    /\ file_settings = DefaultSettings

\* C16: an invocation that loads the config file while another one is
\* saving it never finds an empty or partly written file: no load fails on
\* an incomplete document.
C16_ReaderSeesWholeFile ==
    \A i \in Procs : procs[i].error # "JSONDecodeError"

\* C20: with two invocations interleaving their loads and (single-write)
\* saves, the config file always holds a duplicate-free index and, when
\* the index is non-empty, an in-range offset; when both have ended the
\* file holds the whole state of one of them.
C20_RaceKeepsFileValid ==
    /\ file_exists =>
          /\ NoDuplicates(file_index)
          /\ file_index # <<>> => in_range(file_offset, Len(file_index))
    /\ (\A i \in Procs : procs[i].pc = "exit") =>
          \E i \in Procs :
             /\ file_index = procs[i].index
             /\ file_offset = procs[i].offset
             /\ file_settings = procs[i].settings

\* A lost update: the first invocation saved an index of image 2 alone,
\* then the second, which had loaded before that, saved its own result
\* over it.
C20_Witness ==
    /\ \A i \in Procs : procs[i].pc = "exit" /\ procs[i].error \in {"", "SetterFailed"}
    /\ procs["first"].index = <<2>>
    /\ procs["second"].index = <<1, 2>> /\ procs["second"].offset = 1
    /\ file_index = <<1, 2>> /\ file_offset = 1

====
